---- MODULE Spec2Model ----
(***************************************************************************)
(* OxyTiles: a tile-map editor.  One frame of the egui update loop runs     *)
(* ui::show, i.e. editor::show followed by side_panel::show.  A frame that  *)
(* carries a primary click is one step of this model: the click lands on    *)
(* the canvas (editor.rs), on the displayed tile sheet (side_panel.rs) or   *)
(* on the "Click here to load" button (side_panel.rs).                      *)
(*                                                                         *)
(* Numbers.  Screen positions are integers (points; half-points in the      *)
(* geometry specification so that a cell centre is exact).  A UV            *)
(* coordinate is the quotient the code computes, kept as the fraction       *)
(* [n |-> numerator, d |-> denominator]; for the small operands used here    *)
(* the f32 quotient orders against 0, 1 and other quotients exactly as the  *)
(* fraction does.  Option<T> is a sequence of length 0 (None) or 1 (Some).  *)
(***************************************************************************)
EXTENDS Integers, FiniteSets, Sequences, TLC

VARIABLES
    texture,               \* tile_set.texture: Option<TextureHandle>, by pixel size
    selected_rect,         \* tile_map.selected_rect: Option<Rect> (UV)
    tiles,                 \* tile_map.tiles: HashMap<(usize, usize), Rect>
    canvas_selected_rect,  \* canvas.selected_rect: Pos2
    aborted,               \* the update loop has panicked
    event,                 \* history: the input of the last frame
    picked,                \* history: some frame has picked a region
    since_pick,            \* history: cells painted since the last pick
    geom                   \* geometry specification: inputs and results

vars == <<texture, selected_rect, tiles, canvas_selected_rect, aborted,
          event, picked, since_pick, geom>>

(***************************************************************************)
(* Bounds and inputs                                                        *)
(***************************************************************************)
MaxPainted == 2

MaxOrigin == 1

MaxCellSize == 2

None == << >>

Some(v) == <<v>>

Unwrap(o) == o[1]

\* Pixel sizes of the sheets a load can decode: a multiple of the 16-pixel
\* tile on both axes, a multiple on neither, and a sheet smaller than a tile.
SheetSizes == {<<32, 16>>, <<24, 40>>, <<8, 8>>}

\* Where the central panel puts the grid: clip_rect.min + (available - world)/2.
Offsets == {<<0, 0>>, <<-16, 8>>}

\* Pointer positions of a canvas click, relative to the grid's offset.
PointerRelX == {-1, 0, 32, 33, 257}

PointerRelY == {-1, 16, 256, 257}

\* Pointer positions over a displayed sheet n pixels long, relative to its
\* min corner: both ends, the grid lines, the pixel before each, the half tiles.
SheetPointer(n) == {p \in 0..n : p % 8 = 0 \/ p % 16 = 15 \/ p >= n - 1}

\* Where the side panel puts the sheet image (response.rect.min).
SheetOrigin == <<700, 8>>

(***************************************************************************)
(* Canvas::default, TileMap::new, TileSet::new                              *)
(***************************************************************************)
TileSize == 32

MapSize == 8

SheetTileSize == 16

tile_size == <<TileSize, TileSize>>

size == <<MapSize, MapSize>>

EmptyMap == [c \in {} |-> None]

Pos2Zero == <<0, 0>>

(***************************************************************************)
(* Geometry                                                                 *)
(***************************************************************************)
\* Rect::from_min_size(pos2(offset.x + x*tile_size.x, offset.y + y*tile_size.y), tile_size)
CellRect(x, y, offset, ts) ==
    [min |-> <<offset[1] + x * ts[1], offset[2] + y * ts[2]>>,
     max |-> <<offset[1] + x * ts[1] + ts[1], offset[2] + y * ts[2] + ts[2]>>]

\* Rect::contains: closed on all four sides
Contains(r, p) ==
    /\ r.min[1] <= p[1] /\ p[1] <= r.max[1]
    /\ r.min[2] <= p[2] /\ p[2] <= r.max[2]

\* the ranges of the two loops that lay out the cells
CellIndicesOff(n) == 0..n

CellIndices(n) == 0..(n - 1)

Cells == CellIndices(size[1]) \X CellIndices(size[2])

\* (local_pos / tile_size).floor(), per axis
GridCeil(local_pos, ts) ==
    <<-((-local_pos[1]) \div ts[1]), -((-local_pos[2]) \div ts[2])>>

Grid(local_pos, ts) == <<local_pos[1] \div ts[1], local_pos[2] \div ts[2]>>

\* rect.min + Vec2::new(grid.x * tile_size, grid.y * tile_size)
SnapPos(rect_min, grid, ts) ==
    <<rect_min[1] + grid[1] * ts[1], rect_min[2] + grid[2] * ts[2]>>

(***************************************************************************)
(* The application state the handlers read and write                        *)
(***************************************************************************)
St ==
    [texture |-> texture, selected_rect |-> selected_rect, tiles |-> tiles,
     canvas_selected_rect |-> canvas_selected_rect, aborted |-> aborted]

\* HashMap::insert
Insert(m, k, v) == [c \in (DOMAIN m) \union {k} |-> IF c = k THEN v ELSE m[c]]

\* a / b in f32, kept as the fraction
Quot(a, b) == [n |-> a, d |-> b]

\* Rect::from_min_max
RectFromMinMax(min, max) == [min |-> min, max |-> max]

\* Rect::default()
ZeroRect == RectFromMinMax(<<Quot(0, 1), Quot(0, 1)>>, <<Quot(0, 1), Quot(0, 1)>>)

(***************************************************************************)
(* editor.rs: a cell's response.clicked() branch                            *)
(***************************************************************************)
\* selected_rect.unwrap_or_default() in place of the if-let
ClickHandlerDefaultUv(st, cell) ==
    IF st.texture # None
    THEN [st EXCEPT !.tiles = Insert(st.tiles, cell,
                        IF st.selected_rect = None THEN ZeroRect
                        ELSE Unwrap(st.selected_rect))]
    ELSE st

\* selected_rect.take() in place of the copy
ClickHandlerTake(st, cell) ==
    IF st.selected_rect # None /\ st.texture # None
    THEN [st EXCEPT !.selected_rect = None,
                    !.tiles = Insert(st.tiles, cell, Unwrap(st.selected_rect))]
    ELSE st

\* tiles.entry(..).or_insert(..) in place of insert
ClickHandlerOrInsert(st, cell) ==
    IF st.selected_rect # None /\ st.texture # None /\ cell \notin DOMAIN st.tiles
    THEN [st EXCEPT !.tiles = Insert(st.tiles, cell, Unwrap(st.selected_rect))]
    ELSE st

\* the map rebuilt from the one painted cell
ClickHandlerReplace(st, cell) ==
    IF st.selected_rect # None /\ st.texture # None
    THEN [st EXCEPT !.tiles = Insert(EmptyMap, cell, Unwrap(st.selected_rect))]
    ELSE st

\* texture.take() in place of the re-clone
ClickHandlerDropTexture(st, cell) ==
    IF st.selected_rect # None /\ st.texture # None
    THEN [st EXCEPT !.texture = None,
                    !.tiles = Insert(st.tiles, cell, Unwrap(st.selected_rect))]
    ELSE st

ClickHandler(st, cell) ==
    IF st.selected_rect # None
    THEN IF st.texture # None
         THEN [st EXCEPT !.texture = Some(Unwrap(st.texture)),
                         !.tiles = Insert(st.tiles, cell, Unwrap(st.selected_rect))]
         ELSE st
    ELSE st

(***************************************************************************)
(* side_panel.rs: the sheet image's hover / clicked_by(Primary) branch      *)
(***************************************************************************)
\* Rect::from_min_max(uv_max, uv_min)
PickHandlerSwapped(st, hover_pos, rect_min) ==
    LET local_pos == <<hover_pos[1] - rect_min[1], hover_pos[2] - rect_min[2]>>
        ts == <<SheetTileSize, SheetTileSize>>
        grid == Grid(local_pos, ts)
        texture_size == Unwrap(st.texture)
        uv_min == <<Quot(grid[1] * ts[1], texture_size[1]),
                    Quot(grid[2] * ts[2], texture_size[2])>>
        uv_max == <<Quot((grid[1] + 1) * ts[1], texture_size[1]),
                    Quot((grid[2] + 1) * ts[2], texture_size[2])>>
    IN  [st EXCEPT !.canvas_selected_rect = SnapPos(rect_min, grid, ts),
                   !.selected_rect = Some(RectFromMinMax(uv_max, uv_min))]

\* a second click on the armed tile disarms it
PickHandlerToggle(st, hover_pos, rect_min) ==
    LET local_pos == <<hover_pos[1] - rect_min[1], hover_pos[2] - rect_min[2]>>
        ts == <<SheetTileSize, SheetTileSize>>
        grid == Grid(local_pos, ts)
        texture_size == Unwrap(st.texture)
        uv_min == <<Quot(grid[1] * ts[1], texture_size[1]),
                    Quot(grid[2] * ts[2], texture_size[2])>>
        uv_max == <<Quot((grid[1] + 1) * ts[1], texture_size[1]),
                    Quot((grid[2] + 1) * ts[2], texture_size[2])>>
        uv == Some(RectFromMinMax(uv_min, uv_max))
    IN  [st EXCEPT !.canvas_selected_rect = SnapPos(rect_min, grid, ts),
                   !.selected_rect = IF st.selected_rect = uv THEN None ELSE uv]

PickHandler(st, hover_pos, rect_min) ==
    LET local_pos == <<hover_pos[1] - rect_min[1], hover_pos[2] - rect_min[2]>>
        ts == <<SheetTileSize, SheetTileSize>>
        grid == Grid(local_pos, ts)
        snap_pos == SnapPos(rect_min, grid, ts)
        texture_size == Unwrap(st.texture)
        uv_min == <<Quot(grid[1] * ts[1], texture_size[1]),
                    Quot(grid[2] * ts[2], texture_size[2])>>
        uv_max == <<Quot((grid[1] + 1) * ts[1], texture_size[1]),
                    Quot((grid[2] + 1) * ts[2], texture_size[2])>>
    IN  [st EXCEPT !.canvas_selected_rect = snap_pos,
                   !.selected_rect = Some(RectFromMinMax(uv_min, uv_max))]

(***************************************************************************)
(* side_panel.rs: the "Click here to load" button's clicked() branch        *)
(***************************************************************************)
\* what the file dialog and the decoder can answer
LoadOutcomes ==
    {[kind |-> "cancelled", size |-> Pos2Zero], [kind |-> "invalid", size |-> Pos2Zero]}
    \union {[kind |-> "decoded", size |-> s] : s \in SheetSizes}

LoadHandler(st, outcome) ==
    IF outcome.kind = "cancelled"
    THEN st                                       \* pick_file() is None
    ELSE IF outcome.kind = "invalid"
         THEN [st EXCEPT !.aborted = TRUE]        \* expect("Invalid path") panics
         ELSE [st EXCEPT !.texture = Some(outcome.size)]

(***************************************************************************)
(* Initial state: OxyTiles::default                                         *)
(***************************************************************************)
NoEvent == [kind |-> "none", cell |-> None, outcome |-> "none"]

NoGeom ==
    [kind |-> "none", origin |-> Pos2Zero, cell_size |-> Pos2Zero, index |-> Pos2Zero,
     point |-> Pos2Zero, cell |-> Pos2Zero, snap |-> Pos2Zero]

InitApp ==
    /\ texture = None                    \* TileSet::new
    /\ selected_rect = None              \* TileMap::new
    /\ tiles = EmptyMap
    /\ canvas_selected_rect = Pos2Zero   \* Canvas::default
    /\ aborted = FALSE
    /\ event = NoEvent
    /\ picked = FALSE
    /\ since_pick = {}

Init == InitApp /\ geom = NoGeom

\* the handlers' result, written back
Commit(n) ==
    /\ texture' = n.texture
    /\ selected_rect' = n.selected_rect
    /\ tiles' = n.tiles
    /\ canvas_selected_rect' = n.canvas_selected_rect
    /\ aborted' = n.aborted

(***************************************************************************)
(* Frames                                                                   *)
(***************************************************************************)
\* the cells editor::show lays out whose rectangle the pointer is in
HitCells(offset, pointer) ==
    {c \in Cells : Contains(CellRect(c[1], c[2], offset, tile_size), pointer)}

\* the canvas clicks drawn: where the grid is and where the pointer is
CanvasClicks ==
    {<<offset, <<offset[1] + rx, offset[2] + ry>>>> :
        offset \in Offsets, rx \in PointerRelX, ry \in PointerRelY}

\* the cells some drawn click lands on, and whether some drawn click lands on none
ClickableCells == UNION {HitCells(k[1], k[2]) : k \in CanvasClicks}

MissExists == \E k \in CanvasClicks : HitCells(k[1], k[2]) = {}

\* A click in the central panel that lands on a cell.  Where two cells share
\* an edge the click goes to one of them.
ClickCell ==
    /\ ~aborted
    /\ \E c \in ClickableCells :
         LET n == ClickHandler(St, c)
         IN  /\ Cardinality(DOMAIN n.tiles) <= MaxPainted
             /\ Commit(n)
             /\ event' = [kind |-> "click", cell |-> Some(c), outcome |-> "none"]
             /\ since_pick' = IF selected_rect # None
                              THEN since_pick \union {c} ELSE since_pick
    /\ UNCHANGED <<picked, geom>>

\* A click in the central panel that lands on no cell.
ClickOutside ==
    /\ ~aborted
    /\ MissExists
    /\ event' = [kind |-> "click", cell |-> None, outcome |-> "none"]
    /\ UNCHANGED <<texture, selected_rect, tiles, canvas_selected_rect, aborted,
                   picked, since_pick, geom>>

\* A primary click on the displayed sheet; the image is shown at the texture's size.
ClickSheet ==
    /\ ~aborted
    /\ texture # None
    /\ \E lx \in SheetPointer(Unwrap(texture)[1]), ly \in SheetPointer(Unwrap(texture)[2]) :
         LET hover_pos == <<SheetOrigin[1] + lx, SheetOrigin[2] + ly>>
         IN  Commit(PickHandler(St, hover_pos, SheetOrigin))
    /\ event' = [kind |-> "pick", cell |-> None, outcome |-> "none"]
    /\ picked' = TRUE
    /\ since_pick' = {}
    /\ UNCHANGED geom

\* A click on the load button, shown while no texture is loaded.
ClickLoad ==
    /\ ~aborted
    /\ texture = None
    /\ \E outcome \in LoadOutcomes :
         /\ Commit(LoadHandler(St, outcome))
         /\ event' = [kind |-> "load", cell |-> None, outcome |-> outcome.kind]
    /\ UNCHANGED <<picked, since_pick, geom>>

Next == ClickCell \/ ClickOutside \/ ClickSheet \/ ClickLoad

Spec == Init /\ [][Next]_vars

(***************************************************************************)
(* Geometry specification: the cell rectangle of editor.rs and the          *)
(* floor-and-snap of side_panel.rs, on drawn origins and cell sizes.        *)
(* Lengths are in half-points; a cell of k points is 2k long.               *)
(***************************************************************************)
Origins == (-MaxOrigin..MaxOrigin) \X (-MaxOrigin..MaxOrigin)

CellSizes == {<<2 * a, 2 * b>> : a \in 1..MaxCellSize, b \in 1..MaxCellSize}

InitGeom ==
    /\ InitApp
    /\ \E o \in Origins, cs \in CellSizes :
         geom = [NoGeom EXCEPT !.origin = o, !.cell_size = cs]

Locate(kind, index, point) ==
    LET local_pos == <<point[1] - geom.origin[1], point[2] - geom.origin[2]>>
        grid == Grid(local_pos, geom.cell_size)
    IN  geom' = [geom EXCEPT !.kind = kind, !.index = index, !.point = point,
                             !.cell = grid,
                             !.snap = SnapPos(geom.origin, grid, geom.cell_size)]

\* the centre of a cell's rectangle, mapped back
LocateCentre ==
    /\ geom.kind = "none"
    /\ \E index \in Cells :
         LET r == CellRect(index[1], index[2], geom.origin, geom.cell_size)
         IN  Locate("centre", index,
                    <<(r.min[1] + r.max[1]) \div 2, (r.min[2] + r.max[2]) \div 2>>)
    /\ UNCHANGED <<texture, selected_rect, tiles, canvas_selected_rect, aborted,
                   event, picked, since_pick>>

\* a point strictly inside a cell's rectangle, mapped back
LocateInside ==
    /\ geom.kind = "none"
    /\ \E index \in Cells :
         LET r == CellRect(index[1], index[2], geom.origin, geom.cell_size)
         IN  \E px \in (r.min[1] + 1)..(r.max[1] - 1), py \in (r.min[2] + 1)..(r.max[2] - 1) :
               Locate("inside", index, <<px, py>>)
    /\ UNCHANGED <<texture, selected_rect, tiles, canvas_selected_rect, aborted,
                   event, picked, since_pick>>

NextGeom == LocateCentre \/ LocateInside

SpecGeom == InitGeom /\ [][NextGeom]_vars

(***************************************************************************)
(* Vocabulary of the properties                                             *)
(***************************************************************************)
\* a <= b for quotients with positive denominators
QLe(a, b) == a.n * b.d <= b.n * a.d

QZero == Quot(0, 1)

QOne == Quot(1, 1)

\* 0 <= column < Dimensions.columns and 0 <= row < Dimensions.rows
InDimensions(c) == 0 <= c[1] /\ c[1] < MapSize /\ 0 <= c[2] /\ c[2] < MapSize

\* every UV rectangle the state holds: the armed one and the painted ones
StoredUVs ==
    {tiles[c] : c \in DOMAIN tiles}
    \union (IF selected_rect = None THEN {} ELSE {Unwrap(selected_rect)})

\* min <= max on both axes
Ordered(r) == QLe(r.min[1], r.max[1]) /\ QLe(r.min[2], r.max[2])

\* inside [0,1] x [0,1]
InUnitSquare(r) ==
    /\ QLe(QZero, r.min[1]) /\ QLe(r.max[1], QOne)
    /\ QLe(QZero, r.min[2]) /\ QLe(r.max[2], QOne)

\* the last frame clicked a laid-out cell
ClickedCell == event.kind = "click" /\ event.cell # None

\* the entries an action created or overwrote
Written == {c \in DOMAIN tiles' : c \notin DOMAIN tiles \/ tiles'[c] # tiles[c]}

(***************************************************************************)
(* Properties                                                               *)
(***************************************************************************)
\* C1: as long as no pick has happened the tile map is empty, and a cell
\* click made while there is no armed selection changes no tile-map entry.
C1_PaintBeforePickIgnored ==
    [][ /\ (~picked' => tiles' = EmptyMap)
        /\ ((selected_rect = None /\ event'.kind = "click") => tiles' = tiles) ]_vars

C1_Witness == ~picked /\ texture # None /\ ClickedCell /\ tiles = EmptyMap

\* C2: sticky selection: every cell painted since the last pick holds the
\* UV that was picked, and that UV is still the armed selection.
C2_StickySelection ==
    \A c \in since_pick :
        /\ selected_rect # None
        /\ c \in DOMAIN tiles
        /\ tiles[c] = Unwrap(selected_rect)

C2_Witness ==
    /\ ClickedCell
    /\ Cardinality(since_pick) >= 2
    /\ \A c \in since_pick : tiles[c] = Unwrap(selected_rect)

\* C3: every key of the tile map lies within Dimensions, and a click that
\* lands on no cell of the grid leaves the tile map unchanged.
C3_KeysWithinDimensions ==
    [][ /\ \A c \in DOMAIN tiles' : InDimensions(c)
        /\ ((event'.kind = "click" /\ event'.cell = None) => tiles' = tiles) ]_vars

C3_Witness ==
    /\ event.kind = "click" /\ event.cell = None
    /\ selected_rect # None
    /\ <<1, MapSize - 1>> \in DOMAIN tiles

\* C4: a click on a cell of the grid while a selection is armed writes the
\* armed UV into that cell, whether the cell was empty or painted.
C4_ArmedPaintSucceeds ==
    [][ (event'.kind = "click" /\ event'.cell # None /\ selected_rect # None)
            => /\ Unwrap(event'.cell) \in DOMAIN tiles'
               /\ tiles'[Unwrap(event'.cell)] = Unwrap(selected_rect) ]_vars

C4_Witness ==
    /\ ClickedCell
    /\ selected_rect # None
    /\ tiles[Unwrap(event.cell)] = Unwrap(selected_rect)
    /\ \E c \in DOMAIN tiles : tiles[c] # Unwrap(selected_rect)

\* C5: a load that did not succeed (dialog cancelled, file not decodable)
\* leaves the sheet absent and the program running, with the tile map and
\* the selection as they were.
C5_FailedLoadIsHarmless ==
    (event.kind = "load" /\ event.outcome # "decoded")
        => (texture = None /\ ~aborted /\ tiles = EmptyMap /\ selected_rect = None)

\* C6: the selection is None initially, every pick arms it, it never goes
\* back to None, and only a pick changes it.
C6_SelectionOnlyByPick ==
    /\ selected_rect = None
    /\ [][ /\ (selected_rect # None => selected_rect' # None)
           /\ (selected_rect' # selected_rect => event'.kind = "pick")
           /\ (event'.kind = "pick" => selected_rect' # None) ]_vars

C6_Witness ==
    /\ selected_rect # None
    /\ ClickedCell
    /\ texture # None
    /\ Cardinality(DOMAIN tiles) >= 2

\* C7 as stated: every stored UV rectangle lies inside [0,1] x [0,1] with
\* min <= max, whatever the sheet's pixel size.
C7_UvInsideUnitSquare == \A r \in StoredUVs : Ordered(r) /\ InUnitSquare(r)

\* C7 amended: every stored UV rectangle has 0 <= min <= max and min <= 1 on
\* both axes; its max is <= 1 on an axis whose sheet length is a multiple of
\* the 16-pixel tile, unless the pointer was on the image's far edge (min = 1).
C7_UvOrderedAndAnchored ==
    \A r \in StoredUVs :
        /\ Ordered(r)
        /\ \A i \in 1..2 :
             /\ QLe(QZero, r.min[i])
             /\ QLe(r.min[i], QOne)
             /\ (r.max[i].d % SheetTileSize = 0 /\ r.min[i].n < r.min[i].d)
                    => QLe(r.max[i], QOne)

C7_Witness ==
    /\ texture = Some(<<32, 16>>)
    /\ selected_rect # None
    /\ Unwrap(selected_rect).max[1] = Quot(32, 32)
    /\ \E c \in DOMAIN tiles : tiles[c].min[1] = Quot(16, 32)

\* C8: the centre of a cell's rectangle maps back to the cell's index, and a
\* point strictly inside a cell snaps to that cell's min corner.
C8_GeometryRoundTrip ==
    /\ geom.kind = "centre" => geom.cell = geom.index
    /\ geom.kind = "inside" =>
          /\ geom.cell = geom.index
          /\ geom.snap = CellRect(geom.index[1], geom.index[2],
                                  geom.origin, geom.cell_size).min

C8_Witness ==
    /\ geom.kind = "centre"
    /\ geom.index = <<MapSize - 1, 3>>
    /\ geom.origin = <<-1, 1>>
    /\ geom.cell_size = <<2, 4>>
    /\ geom.cell = geom.index

\* C9: every action keeps every key of the tile map, creates or overwrites
\* at most one entry, and changes the map only if it is a cell click.
C9_MapGrowsOneAtATime ==
    [][ /\ DOMAIN tiles \subseteq DOMAIN tiles'
        /\ Cardinality(Written) <= 1
        /\ (tiles' # tiles => (event'.kind = "click" /\ event'.cell # None)) ]_vars

C9_Witness ==
    /\ event.kind = "pick"
    /\ Cardinality(DOMAIN tiles) >= 2
    /\ \E c \in DOMAIN tiles : tiles[c] # Unwrap(selected_rect)

\* C10: an armed selection implies a loaded tile sheet.
C10_ArmedImpliesLoaded == selected_rect # None => texture # None

C10_Witness == selected_rect # None /\ texture # None /\ ClickedCell /\ tiles # EmptyMap

====
